---- MODULE Spec2Model ----
(***************************************************************************)
(* LAN discovery and cloud reconciliation of midea_beautiful/scanner.py.   *)
(*                                                                         *)
(* One behaviour is one call of _find_appliances_on_lan(cloud, networks).  *)
(* The environment is a set of physical devices.  Device d has the device  *)
(* id d, the serial number SnOf(d) and the type TypeOf(d); a cloud record  *)
(* for d carries the same id, serial number and type plus a display name.  *)
(* A reply may come from any address; whether the decoded reply carries    *)
(* the serial number depends on the device (LanDevice.sn may be None).     *)
(***************************************************************************)
EXTENDS Integers, Sequences, FiniteSets, TLC

\* ---- bounds of the model ----
NumDevices == 3
NumIPs == 2
NumNets == 2
MaxReplies == 2

\* ---- program constants ----
_BROADCAST_RETRIES == 3

None == <<>>

Devices == 1..NumDevices
IPs == {<<"ip", n>> : n \in 1..NumIPs}

SnOf(d) == <<"sn", d>>
NameOf(d) == <<"name", d>>
\* device 1 is of a type the library does not understand
TypeOf(d) == IF d = 1 THEN "0xE1" ELSE "0xA1"

\* Appliance.supported(type): the device-support predicate
Supported(type) == type = "0xA1"


\* the serial number in the replies of device d: odd devices do not send one
LanSnOf(d) == IF d % 2 = 0 THEN SnOf(d) ELSE None

\* a cloud inventory record for device d: a["id"], a["type"], a["sn"], a["name"]
CloudRecord(d) == [id |-> d, type |-> TypeOf(d), sn |-> SnOf(d), name |-> NameOf(d)]

\* LanDevice(data=data) decoded from a reply of device d received from ip
Descriptor(ip, d) ==
    [id |-> d, type |-> TypeOf(d), sn |-> LanSnOf(d), name |-> None, ip |-> ip]

\* LanDevice(id=known["id"], appliance_type=known["type"])
Placeholder(known) ==
    [id |-> known.id, type |-> known.type, sn |-> None, name |-> None, ip |-> None]

Replies == {Descriptor(ip, d) : ip \in IPs, d \in Devices}

\* matches_lan_cloud(appliance, details)
matches_lan_cloud(local, details) ==
    \/ local.sn # None /\ details.sn # None /\ local.sn = details.sn
    \/ local.sn = None /\ local.id = details.id

\* LanDevice.is_supported
is_supported(appliance) == Supported(appliance.type)

\* LanDevice.update(other): the stored address is replaced
update(appliance, scanned) == [appliance EXCEPT !.ip = scanned.ip]

\* ---- sequences ----
Range(s) == {s[k] : k \in 1..Len(s)}

InjectiveSeqs(S) ==
    {s \in UNION {[1..n -> S] : n \in 0..Cardinality(S)} :
        \A a, b \in 1..Len(s) : a # b => s[a] # s[b]}

\* the device lists in ascending or in descending order of id
Monotone(s) ==
    \/ \A a, b \in 1..Len(s) : a < b => s[a] < s[b]
    \/ \A a, b \in 1..Len(s) : a < b => s[a] > s[b]

\* cloud.list_appliances(): the account registers any subset of the devices
Inventories ==
    {[k \in 1..Len(s) |-> CloudRecord(s[k])] :
        s \in {t \in InjectiveSeqs(Devices) : Monotone(t)}}

\* every order in which iterating a set can yield its elements
Orders(S) == {s \in InjectiveSeqs(S) : Len(s) = Cardinality(S)}

\* the first of the indices at which a loop's test succeeds (where it breaks),
\* 0 when there is none (the loop runs to its end)
FirstIndex(hits) ==
    IF hits = {} THEN 0 ELSE CHOOSE k \in hits : \A j \in hits : k <= j

RECURSIVE InsertById(_, _)
InsertById(sorted, x) ==
    IF sorted = <<>> THEN <<x>>
    ELSE IF x.id < Head(sorted).id THEN <<x>> \o sorted
    ELSE <<Head(sorted)>> \o InsertById(Tail(sorted), x)

\* the list left in the order the set yielded it
SortById_Unsorted(s) == s

\* scanned_appliances.sort(key=lambda appliance: appliance.id): stable
RECURSIVE SortById(_)
SortById(s) ==
    IF s = <<>> THEN <<>>
    ELSE InsertById(SortById(SubSeq(s, 1, Len(s) - 1)), s[Len(s)])

RECURSIVE SumSupported(_)
SumSupported(cloud_appliances) ==
    IF cloud_appliances = <<>> THEN 0
    ELSE (IF Supported(Head(cloud_appliances).type) THEN 1 ELSE 0)
         + SumSupported(Tail(cloud_appliances))

\* count = sum(Appliance.supported(a["type"]) for a in cloud_appliances)
Count(cloud_appliances) == SumSupported(cloud_appliances)

\* known_cloud_appliances = set(a["id"] for a in cloud_appliances)
KnownCloudIds(cloud_appliances) == {a.id : a \in Range(cloud_appliances)}

\* ---- collect_appliances, lines 85-94 ----

\* a collector whose address set forgets the addresses of earlier replies
IsKnownIp_Forgetful(known, ip) == FALSE

\* line 87: ip in self._known_ips (the set lives as long as the collector)
IsKnownIp(known, ip) == ip \in known

\* ---- the reconciliation loop body, lines 163-183 ----

\* lines 164-170: an appliance with the same id is already in the list
KnownStep(apps, scanned) ==
    LET k == FirstIndex({j \in 1..Len(apps) : apps[j].id = scanned.id})
    IN  IF k # 0 /\ apps[k].ip # scanned.ip
        THEN [apps EXCEPT ![k] = update(@, scanned)]
        ELSE apps

\* line 172-173: the first cloud record the scanned device matches, 0 if none
MatchIndex(cloud_appliances, scanned) ==
    FirstIndex({j \in 1..Len(cloud_appliances) :
                    matches_lan_cloud(scanned, cloud_appliances[j])})

\* lines 174-175: scanned.name = details["name"]; appliances.append(scanned)
Found(apps, scanned, details) ==
    Append(apps, [scanned EXCEPT !.name = details.name])

\* an else branch that keeps the unregistered device
Unregistered_Kept(apps, scanned) == Append(apps, scanned)

\* lines 179-183: not registered to the account, a warning only
Unregistered(apps, scanned) == apps

\* set.discard in place of set.remove: never raises
RemoveRaises_Discard(known, id) == FALSE

\* line 177: set.remove raises KeyError when the element is absent
RemoveRaises(known, id) == id \notin known

\* line 184: if len(known_cloud_appliances) == 0: break
LoopDone(known) == Cardinality(known) = 0

\* line 187: if len(appliances) < count
NeedMissing(apps, count) == Len(apps) < count

\* ---- _add_missing_appliances, lines 131-145 ----

\* the name is copied, the serial number is not
FillFromCloud_NameOnly(local, known) == [local EXCEPT !.name = known.name]

\* lines 143-145 applied to the entry `local`
FillFromCloud(local, known) ==
    [local EXCEPT !.sn = IF @ = None THEN known.sn ELSE @, !.name = known.name]

\* the loop body without the test of line 132
AddMissingOne_AnyType(apps, known) ==
    LET k == FirstIndex({j \in 1..Len(apps) : matches_lan_cloud(apps[j], known)})
    IN  IF k # 0
        THEN [apps EXCEPT ![k] = FillFromCloud(@, known)]
        ELSE Append(apps, FillFromCloud(Placeholder(known), known))

\* lines 132-145 for one cloud record
AddMissingOne(apps, known) ==
    IF ~Supported(known.type) THEN apps
    ELSE LET k == FirstIndex({j \in 1..Len(apps) : matches_lan_cloud(apps[j], known)})
         IN  IF k # 0
             THEN [apps EXCEPT ![k] = FillFromCloud(@, known)]
             ELSE Append(apps, FillFromCloud(Placeholder(known), known))

\* the inventory walked from its last record to its first
RECURSIVE _add_missing_appliances_Backwards(_, _)
_add_missing_appliances_Backwards(cloud_appliances, apps) ==
    IF cloud_appliances = <<>> THEN apps
    ELSE _add_missing_appliances_Backwards(
             SubSeq(cloud_appliances, 1, Len(cloud_appliances) - 1),
             AddMissingOne(apps, cloud_appliances[Len(cloud_appliances)]))

RECURSIVE _add_missing_appliances(_, _)
_add_missing_appliances(cloud_appliances, apps) ==
    IF cloud_appliances = <<>> THEN apps
    ELSE _add_missing_appliances(Tail(cloud_appliances),
                                 AddMissingOne(apps, Head(cloud_appliances)))

\* line 89: self._known_ips.add(ip), done only for a supported reply
KnownAfterReply_SupportedOnly(known, r) ==
    IF is_supported(r) THEN known \cup {r.ip} ELSE known

\* line 89: self._known_ips.add(ip), before the reply is decoded
KnownAfterReply(known, r) == known \cup {r.ip}

\* a collector built anew for every pass starts from an empty address set
PassKnownIps_Fresh(known) == {}

\* lines 152 and 161: one MideaDiscovery serves every pass, and nothing but
\* __init__ (line 74) assigns _known_ips
PassKnownIps(known) == known

\* ---- _broadcast_message, lines 105-113 ----

\* a try block around the whole loop: the first failure ends the fan-out
SendLoopContinues_Abort(ok) == ok

\* lines 107-113: the try is inside the loop, a failed sendto is only logged
SendLoopContinues(ok) == TRUE

\* ---- _get_broadcast_addresses, lines 25-65 ----

\* a network given by the caller or found on an adapter: what kind of address
\* range it is, and its position in the list it came from
Net(kind, n) == [kind |-> kind, n |-> n]

AddressKinds == {"private", "public", "loopback", "linklocal"}
AdapterKinds == AddressKinds \cup {"ipv6"}

\* the lists of at most NumNets networks over the kinds K
NetLists(K) ==
    UNION {{[k \in 1..n |-> Net(f[k], k)] : f \in [1..n -> K]} : n \in 0..NumNets}

\* IPv4Network.is_loopback, .is_link_local, .is_private; ifaddr IP.is_IPv4
is_loopback(net) == net.kind = "loopback"
is_link_local(net) == net.kind = "linklocal"
is_private(net) == net.kind \in {"private", "loopback", "linklocal"}
is_IPv4(net) == net.kind # "ipv6"

\* str(net.broadcast_address)
BroadcastAddress(net) == <<"bc", net.kind, net.n>>

\* line 36
AddressTest(net) == ~is_loopback(net) /\ ~is_link_local(net)

\* lines 45-52
AdapterTest(net) ==
    is_IPv4(net) /\ is_private(net) /\ ~is_loopback(net) /\ ~is_link_local(net)

\* lines 33-53: nets
ValidNets(addrs, adapterIps) ==
    SelectSeq(addrs, AddressTest)
    \o (IF addrs = <<>> THEN SelectSeq(adapterIps, AdapterTest) ELSE <<>>)

\* a test that lets an empty list through
NoValidNetworks_Never(nets) == FALSE

\* line 55: if not nets: raise MideaError
NoValidNetworks(nets) == nets = <<>>

\* lines 58-65: the broadcast address of every net, in order
_get_broadcast_addresses(addrs, adapterIps) ==
    LET nets == ValidNets(addrs, adapterIps)
    IN  [k \in 1..Len(nets) |-> BroadcastAddress(nets[k])]

\* the target addresses of a call of _find_appliances_on_lan
TargetList == [k \in 1..NumNets |-> BroadcastAddress(Net("private", k))]

\* ---- the retry loop, lines 158 and 177 ----

\* a removal that removes nothing
RemoveId_Skip(known, id) == known

\* line 177: known_cloud_appliances.remove(details["id"])
RemoveId(known, id) == known \ {id}

\* a loop variable that does not advance
NextPass_Stuck(n) == n

\* line 158: for i in range(_BROADCAST_RETRIES)
NextPass(n) == n + 1


\* ---- state ----
VARIABLES
    cloud,                  \* TRUE when a cloud session was passed or established
    cloud_appliances,       \* cloud.list_appliances() if cloud else []
    credentials,            \* find_appliances: account and password were given
    addresses,              \* find_appliances: the networks the caller gave
    adapters,               \* the IPs of get_adapters()
    networks,               \* the broadcast addresses to send to
    budget,                 \* the number of replies the network delivers at most
    socketOpen,             \* discovery._socket is open
    socketUsed,             \* history: sendto or recvfrom was called on it
    sent,                   \* sendto calls made by the running _broadcast_message
    firstFailed,            \* ... and which of them was the first to raise, 0 if none
    known_ips,              \* discovery._known_ips
    scanned_appliances,     \* the set collect_appliances is filling
    queue,                  \* sorted descriptors still to process in this pass
    appliances,             \* the accumulating list
    known_cloud_appliances, \* cloud ids not yet removed
    i,                      \* loop variable of the retry loop
    pc,                     \* position in find_appliances / _find_appliances_on_lan
    exc,                    \* the exception that ended the call, "none" otherwise
    nrecv,                  \* history: replies received in this call
    ntimeouts,              \* history: receives that timed out in this call
    seen,                   \* history: every reply received in this call
    passAny,                \* history: the current pass received a reply
    passNew,                \* history: ... one that had not been received before
    appsAtPassStart,        \* history: appliances when the current pass started
    knownAtPassStart,       \* history: known_cloud_appliances at that point
    passCollected,          \* history: the list collect_appliances returned in this pass
    collected,              \* history: descriptors returned by collector passes
    last                    \* history: the descriptor processed last in this pass

vars == <<cloud, cloud_appliances, credentials, addresses, adapters, networks, budget,
          socketOpen, socketUsed, sent, firstFailed, known_ips, scanned_appliances, queue,
          appliances, known_cloud_appliances, i, pc, exc, nrecv, ntimeouts, seen,
          passAny, passNew, appsAtPassStart, knownAtPassStart, passCollected,
          collected, last>>

config == <<cloud, cloud_appliances, credentials, addresses, adapters, networks, budget>>
history == <<nrecv, ntimeouts, seen, passAny, passNew, appsAtPassStart,
             knownAtPassStart, passCollected, collected, last>>
passHistory == <<passAny, passNew, appsAtPassStart, knownAtPassStart>>

sending == <<sent, firstFailed>>

NoLast == [kind |-> "none"]

\* what both entry points start from
Fresh ==
    /\ sent = 0
    /\ firstFailed = 0
    /\ socketUsed = FALSE
    /\ known_ips = {}
    /\ scanned_appliances = {}
    /\ queue = <<>>
    /\ appliances = <<>>
    /\ i = 0
    /\ exc = "none"
    /\ nrecv = 0
    /\ ntimeouts = 0
    /\ seen = {}
    /\ passAny = FALSE
    /\ passNew = FALSE
    /\ appsAtPassStart = <<>>
    /\ passCollected = <<>>
    /\ collected = {}
    /\ last = NoLast

\* _find_appliances_on_lan(cloud, networks) after lines 152-157, before the
\* first iteration of the loop
Init ==
    /\ cloud \in BOOLEAN
    /\ cloud_appliances \in (IF cloud THEN Inventories ELSE {<<>>})
    /\ credentials = FALSE
    /\ addresses = <<>>
    /\ adapters = <<>>
    /\ networks = TargetList
    /\ budget = MaxReplies
    /\ socketOpen = TRUE
    /\ known_cloud_appliances = KnownCloudIds(cloud_appliances)
    /\ knownAtPassStart = known_cloud_appliances
    /\ pc = "broadcast"
    /\ Fresh

\* find_appliances(cloud, account, password, networks) at line 200
FindInit ==
    /\ cloud \in BOOLEAN
    /\ credentials \in BOOLEAN
    /\ cloud_appliances = <<>>
    /\ addresses \in NetLists(AddressKinds)
    /\ adapters \in (IF addresses = <<>> THEN NetLists(AdapterKinds) ELSE {<<>>})
    /\ networks = <<>>
    /\ budget = 1
    /\ socketOpen = FALSE
    /\ known_cloud_appliances = {}
    /\ knownAtPassStart = {}
    /\ pc = "find"
    /\ Fresh

\* an exception leaves the call: the socket is never closed, and the traceback
\* keeps the frame, its `discovery` and so the socket object alive
Raise(what) ==
    /\ pc' = "raised"
    /\ exc' = what
    /\ UNCHANGED socketOpen

\* lines 201-203: a session is established when none was passed and
\* credentials were; authenticate() may fail
Authenticate ==
    /\ pc = "find"
    /\ IF ~cloud /\ credentials
       THEN \/ cloud' = TRUE /\ pc' = "resolve" /\ UNCHANGED <<exc, socketOpen>>
            \/ Raise("CloudError") /\ UNCHANGED cloud
       ELSE pc' = "resolve" /\ UNCHANGED <<cloud, exc, socketOpen>>
    /\ UNCHANGED <<cloud_appliances, credentials, addresses, adapters, networks,
                   budget, socketUsed, sending, known_ips, scanned_appliances, queue,
                   appliances, known_cloud_appliances, i, history>>

\* lines 205-207 and 152-157: the broadcast addresses are resolved; without a
\* valid network MideaError leaves the call, otherwise the collector and its
\* socket are created and the inventory is listed.  The arguments are not
\* read again.
Resolve ==
    /\ pc = "resolve"
    /\ IF NoValidNetworks(ValidNets(addresses, adapters))
       THEN /\ Raise("MideaError")
            /\ UNCHANGED <<cloud_appliances, addresses, adapters, networks,
                           known_cloud_appliances, knownAtPassStart>>
       ELSE /\ networks' = _get_broadcast_addresses(addresses, adapters)
            /\ addresses' = <<>>
            /\ adapters' = <<>>
            /\ socketOpen' = TRUE
            /\ cloud_appliances' \in (IF cloud THEN Inventories ELSE {<<>>})
            /\ known_cloud_appliances' = KnownCloudIds(cloud_appliances')
            /\ knownAtPassStart' = known_cloud_appliances'
            /\ pc' = "broadcast"
            /\ UNCHANGED exc
    /\ UNCHANGED <<cloud, credentials, budget, socketUsed, sending, known_ips,
                   scanned_appliances, queue, appliances, i, nrecv, ntimeouts, seen,
                   passAny, passNew, appsAtPassStart, passCollected, collected, last>>

\* lines 159-161 and 80: a pass starts, _broadcast_message is entered
Broadcast ==
    /\ pc = "broadcast"
    /\ pc' = IF networks = <<>> THEN "recv" ELSE "send"
    /\ sent' = 0
    /\ firstFailed' = 0
    /\ known_ips' = PassKnownIps(known_ips)
    /\ scanned_appliances' = {}
    /\ passAny' = FALSE
    /\ passNew' = FALSE
    /\ appsAtPassStart' = appliances
    /\ knownAtPassStart' = known_cloud_appliances
    /\ last' = NoLast
    /\ UNCHANGED <<config, socketOpen, socketUsed, queue, appliances,
                   known_cloud_appliances, i, exc, nrecv, ntimeouts, seen,
                   passCollected, collected>>

\* lines 105-113: one iteration of `for addr in networks`, which sends to
\* networks[sent + 1]; sendto succeeds or raises, and after the last address the receive loop of line 84 is entered
Send(ok) ==
    /\ pc = "send"
    /\ sent < Len(networks)
    /\ sent' = sent + 1
    /\ firstFailed' = IF ~ok /\ firstFailed = 0 THEN sent' ELSE firstFailed
    /\ socketUsed' = TRUE
    /\ pc' = IF SendLoopContinues(ok) /\ sent' < Len(networks)
             THEN "send" ELSE "recv"
    /\ UNCHANGED <<config, socketOpen, known_ips, scanned_appliances, queue,
                   appliances, known_cloud_appliances, i, exc, history>>

\* lines 85-94: recvfrom returns one reply
Receive(r) ==
    /\ pc = "recv"
    /\ nrecv < budget
    /\ nrecv' = nrecv + 1
    /\ seen' = seen \cup {r}
    /\ passAny' = TRUE
    /\ passNew' = (passNew \/ r \notin seen)
    /\ sent' = 0
    /\ firstFailed' = 0
    /\ socketUsed' = TRUE
    /\ IF ~IsKnownIp(known_ips, r.ip)
       THEN /\ known_ips' = KnownAfterReply(known_ips, r)
            /\ scanned_appliances' =
                 IF is_supported(r) THEN scanned_appliances \cup {r}
                 ELSE scanned_appliances
       ELSE UNCHANGED <<known_ips, scanned_appliances>>
    /\ UNCHANGED <<config, socketOpen, queue, appliances, known_cloud_appliances, i,
                   pc, exc, ntimeouts, appsAtPassStart, knownAtPassStart,
                   passCollected, collected, last>>

\* line 85: recvfrom fails with an error other than socket.timeout, which is
\* the only exception line 96 catches
ReceiveFault ==
    /\ pc = "recv"
    /\ Raise("OSError")
    /\ sent' = 0
    /\ firstFailed' = 0
    /\ socketUsed' = TRUE
    /\ UNCHANGED <<config, known_ips, scanned_appliances, queue, appliances,
                   known_cloud_appliances, i, history>>

\* lines 96-101 and 161-162: the receive times out, the identified descriptors
\* are returned, listed and sorted by id
Timeout ==
    /\ pc = "recv"
    /\ \E identified \in SUBSET scanned_appliances :
         \E order \in Orders(identified) :
            /\ passCollected' = order
            /\ queue' = SortById(order)
            /\ collected' = collected \cup identified
    /\ ntimeouts' = ntimeouts + 1
    /\ scanned_appliances' = {}
    /\ sent' = 0
    /\ firstFailed' = 0
    /\ socketUsed' = TRUE
    /\ pc' = "process"
    /\ UNCHANGED <<config, socketOpen, known_ips, appliances,
                   known_cloud_appliances, i, exc, nrecv, seen, passHistory, last>>

\* lines 163-183: one iteration of `for scanned in scanned_appliances`
Process ==
    /\ pc = "process"
    /\ queue # <<>>
    /\ LET scanned == Head(queue)
           apps1 == KnownStep(appliances, scanned)
           m == MatchIndex(cloud_appliances, scanned)
       IN  /\ queue' = Tail(queue)
           /\ IF m = 0
              THEN /\ appliances' = Unregistered(apps1, scanned)
                   /\ last' = [kind |-> "unregistered", scanned |-> scanned]
                   /\ UNCHANGED <<known_cloud_appliances, pc, exc, socketOpen>>
              ELSE LET details == cloud_appliances[m]
                   IN  /\ appliances' = Found(apps1, scanned, details)
                       /\ last' = [kind |-> "found", scanned |-> scanned]
                       /\ IF RemoveRaises(known_cloud_appliances, details.id)
                          THEN /\ Raise("KeyError")
                               /\ UNCHANGED known_cloud_appliances
                          ELSE /\ known_cloud_appliances' =
                                    RemoveId(known_cloud_appliances, details.id)
                               /\ UNCHANGED <<pc, exc, socketOpen>>
    /\ UNCHANGED <<config, socketUsed, sending, known_ips, scanned_appliances, i,
                   nrecv, ntimeouts, seen, passHistory, passCollected, collected>>

\* lines 184-185 and the loop header 158: break, next pass, or loop exhausted
EndPass ==
    /\ pc = "process"
    /\ queue = <<>>
    /\ IF LoopDone(known_cloud_appliances) \/ i + 1 >= _BROADCAST_RETRIES
       THEN pc' = "after" /\ UNCHANGED i
       ELSE pc' = "broadcast" /\ i' = NextPass(i)
    /\ last' = NoLast
    /\ passCollected' = <<>>
    /\ UNCHANGED <<config, socketOpen, socketUsed, sending, known_ips,
                   scanned_appliances, queue, appliances, known_cloud_appliances,
                   exc, nrecv, ntimeouts, seen, passHistory, collected>>

\* lines 186-189: placeholders for what was not found, then return.  No line
\* closes the socket: it is closed only if the interpreter finalises the
\* unreferenced socket object at once, which the language does not promise
Return ==
    /\ pc = "after"
    /\ appliances' =
         IF NeedMissing(appliances, Count(cloud_appliances))
         THEN _add_missing_appliances(cloud_appliances, appliances)
         ELSE appliances
    /\ pc' = "returned"
    /\ socketOpen' \in BOOLEAN
    /\ UNCHANGED <<config, socketUsed, sending, known_ips, scanned_appliances, queue,
                   known_cloud_appliances, i, exc, history>>

Next ==
    \/ Broadcast
    \/ \E ok \in BOOLEAN : Send(ok)
    \/ \E r \in Replies : Receive(r)
    \/ ReceiveFault
    \/ Timeout
    \/ Process
    \/ EndPass
    \/ Return

\* one call of _find_appliances_on_lan
Spec == Init /\ [][Next]_vars

FindNext ==
    \/ Authenticate
    \/ Resolve
    \/ Next

\* one call of find_appliances
SpecFind == FindInit /\ [][FindNext]_vars

\* one call of _find_appliances_on_lan in which the program's own steps are
\* taken when they can be and every receive loop eventually times out
FairSpec ==
    /\ Spec
    /\ WF_vars(Broadcast)
    /\ WF_vars(\E ok \in BOOLEAN : Send(ok))
    /\ WF_vars(Timeout)
    /\ WF_vars(Process)
    /\ WF_vars(EndPass)
    /\ WF_vars(Return)

\* the devices that sent a reply during this call
Replied == {r.id : r \in seen}

\* ---- properties ----

Returned == pc = "returned"
PassEnd == pc = "process" /\ queue = <<>>
Indices(apps) == 1..Len(apps)
EntriesOf(apps, id) == {k \in Indices(apps) : apps[k].id = id}
SupportedRecords == {r \in Range(cloud_appliances) : Supported(r.type)}
OnLan(id) == \E k \in Indices(appliances) : appliances[k].id = id /\ appliances[k].ip # None

\* C1: the list returned by _find_appliances_on_lan holds no two entries with
\* the same device id, whatever the inventory and the replies were.
C1_UniqueIds ==
    Returned => \A a, b \in Indices(appliances) :
                    a # b => appliances[a].id # appliances[b].id

\* C1 witness: a call returned two or more appliances although one device had
\* replied from two different addresses.
C1_Witness ==
    /\ Returned /\ cloud /\ Len(appliances) >= 2
    /\ \E r1, r2 \in seen : r1.id = r2.id /\ r1.ip # r2.ip /\ OnLan(r1.id)

\* C2 (as claimed): without a cloud session every descriptor a collector pass
\* returned is in the returned list with its address and id and no name.
C2_NoCloudAcceptsAll ==
    (Returned /\ ~cloud) =>
        \A d \in collected :
            \E k \in Indices(appliances) :
                /\ appliances[k].id = d.id
                /\ appliances[k].ip = d.ip
                /\ appliances[k].name = None

\* C3 (as claimed): with a cloud session, processing a descriptor whose id has
\* been in the list since an earlier pass under another address replaces that
\* entry's address, keeps its id and serial number, and the reconciliation
\* goes on normally.
C3_UpdateInPlace ==
    [][(cloud /\ pc = "process" /\ queue # <<>>) =>
         \A k \in Indices(appliances) :
            (/\ k <= Len(appsAtPassStart)
             /\ appliances[k].id = Head(queue).id
             /\ appliances[k].ip # Head(queue).ip
             /\ \A j \in 1..(k - 1) : appliances[j].id # Head(queue).id) =>
                /\ pc' # "raised"
                /\ appliances'[k].ip = Head(queue).ip
                /\ appliances'[k].id = appliances[k].id
                /\ appliances'[k].sn = appliances[k].sn]_vars

\* C4 (as claimed): with a cloud session that registers a supported device, no
\* further pass is started once every registered device of a supported type is
\* in the list at the end of a pass.
C4_EarlyExit ==
    (cloud /\ pc = "broadcast" /\ i >= 1 /\ SupportedRecords # {}) =>
        \E r \in SupportedRecords : EntriesOf(appliances, r.id) = {}

\* C5: with a cloud session, the returned list is as long as the number of
\* cloud records of a supported type.
C5_SizeEqualsCount ==
    (Returned /\ cloud) => Len(appliances) = Cardinality(SupportedRecords)

\* C5 witness: a call with a cloud session returned a device found on the
\* network next to one that was not.
C5_Witness ==
    /\ Returned /\ cloud /\ Cardinality(SupportedRecords) >= 2
    /\ \E a, b \in Indices(appliances) :
          appliances[a].ip # None /\ appliances[b].ip = None

\* C6: with a cloud session, a supported cloud record whose device never
\* replied has exactly one entry in the returned list: the record's id and
\* type, no address, the cloud's name and serial number.
C6_SilentDevicePlaceholder ==
    (Returned /\ cloud) =>
        \A r \in SupportedRecords :
            r.id \notin Replied =>
                /\ Cardinality(EntriesOf(appliances, r.id)) = 1
                /\ \A k \in EntriesOf(appliances, r.id) :
                      /\ appliances[k].type = r.type
                      /\ appliances[k].ip = None
                      /\ appliances[k].name = r.name
                      /\ appliances[k].sn = r.sn

\* C6 witness: a call returned while a registered supported device had stayed
\* silent and another registered device had been found.
C6_Witness ==
    /\ Returned /\ cloud
    /\ \E r \in SupportedRecords : r.id \notin Replied
    /\ \E r \in SupportedRecords : r.id \in Replied /\ OnLan(r.id)

\* C7 (as claimed): whatever the replies are, reconciling them never raises.
C7_RepliesNeverRaise == ~(pc = "raised" /\ exc = "KeyError")

\* C8: a pass in which every reply is one already received earlier in the call
\* (same device, same address) changes nothing: nothing is scanned, no
\* appliance is mutated or appended, the pending cloud ids stay as they were.
C8_RepeatedPassIsNoOp ==
    (pc \in {"recv", "process", "raised"} /\ ~passNew) =>
        /\ scanned_appliances = {}
        /\ queue = <<>>
        /\ appliances = appsAtPassStart
        /\ known_cloud_appliances = knownAtPassStart

\* C8 witness: the second pass ended after receiving exactly the reply the
\* first pass had received, from which an appliance had been found.
C8_Witness ==
    /\ PassEnd /\ i = 1 /\ passAny /\ ~passNew
    /\ nrecv = 2 /\ Cardinality(seen) = 1
    /\ Len(appliances) = 1

\* C9: with a cloud session, processing a descriptor that matches no cloud
\* record leaves the appliance list and the pending cloud ids unchanged, and
\* the list never holds a device that matches no cloud record.
C9_UnregisteredIgnored ==
    /\ [](cloud => \A k \in Indices(appliances) :
                      \E r \in Range(cloud_appliances) : r.id = appliances[k].id)
    /\ [][(cloud /\ pc = "process" /\ queue # <<>>
           /\ \A r \in Range(cloud_appliances) : ~matches_lan_cloud(Head(queue), r)) =>
             /\ appliances' = appliances
             /\ known_cloud_appliances' = known_cloud_appliances
             /\ pc' = "process"]_vars

\* C9 witness: an unregistered device has just been processed while the list
\* already held a registered one.
C9_Witness ==
    /\ cloud /\ last.kind = "unregistered" /\ appliances # <<>>

\* C10 (as claimed): when the call has ended, by return or by exception, the
\* socket the collector opened is closed.
C10_SocketReleased == pc \in {"returned", "raised"} => ~socketOpen

\* C11: when no usable network can be resolved, find_appliances ends with the
\* configuration error before the discovery socket is opened or used.
NoUsableNetwork ==
    IF addresses # <<>>
    THEN \A k \in 1..Len(addresses) : addresses[k].kind \in {"loopback", "linklocal"}
    ELSE \A k \in 1..Len(adapters) : adapters[k].kind # "private"

C11_ConfigErrorBeforeSocket ==
    /\ [][(pc = "resolve" /\ NoUsableNetwork) =>
            (pc' = "raised" /\ exc' = "MideaError" /\ ~socketOpen' /\ ~socketUsed')]_vars
    /\ [](exc = "MideaError" => ~socketOpen /\ ~socketUsed /\ networks = <<>>)

\* C11 witness: with a session at hand, two explicit networks were both
\* loopback or link-local and the call ended with the configuration error.
C11_Witness ==
    /\ pc = "raised" /\ exc = "MideaError" /\ cloud /\ Len(addresses) >= 2

\* C12: every step of the send loop, failed or not, goes on to the next target
\* address, and the receive phase is entered only after a send to every
\* target address.
C12_SendFailureDoesNotAbort ==
    [][pc = "send" =>
         /\ pc' \in {"send", "recv"}
         /\ sent' = sent + 1
         /\ (pc' = "recv" => sent' = Len(networks))]_vars

\* C12 witness: the receive phase is entered after the send to the first of
\* several target addresses failed and the others were still sent to.
C12_Witness ==
    /\ pc = "recv" /\ firstFailed = 1 /\ Len(networks) >= 2 /\ sent = Len(networks)

\* C13 (as claimed): the loop ends before _BROADCAST_RETRIES passes only with
\* a cloud session whose pending ids are all found; otherwise, and always
\* without a cloud session, exactly _BROADCAST_RETRIES passes are run.
C13_EarlyStopOnlyWithCloud ==
    (pc \in {"after", "returned"} /\ ~(cloud /\ known_cloud_appliances = {})) =>
        i + 1 = _BROADCAST_RETRIES

\* C14 (as claimed): at the start of the loop and at the end of every pass the
\* pending ids are exactly the ids of the supported cloud records for which no
\* appliance has been appended.
C14_PendingIsSupportedUnmatched ==
    (cloud /\ (pc = "broadcast" \/ PassEnd)) =>
        known_cloud_appliances =
            {r.id : r \in {q \in SupportedRecords : EntriesOf(appliances, q.id) = {}}}

\* C15: the known addresses are the addresses of all replies of the call so
\* far and only grow; a reply from an address that replied before, in this or
\* an earlier pass and whatever became of that reply, is not decoded, so no
\* two decoded descriptors of one call share an address.
IpsOf(S) == {r.ip : r \in S}

C15_KnownIpsSpanTheRun ==
    /\ [](known_ips = IpsOf(seen))
    /\ [][known_ips \subseteq known_ips']_vars
    /\ [][IpsOf(seen') = IpsOf(seen) => scanned_appliances' \subseteq scanned_appliances]_vars
    /\ [](\A a, b \in collected \cup scanned_appliances : a.ip = b.ip => a = b)

\* C15 witness: in the second pass a reply arrived from the address of the
\* first pass's reply, one of the two was supported, and none was ever
\* scanned or returned.
C15_Witness ==
    /\ pc = "recv" /\ i = 1 /\ passAny /\ passNew
    /\ Cardinality(seen) = 2 /\ Cardinality(IpsOf(seen)) = 1
    /\ \E r \in seen : is_supported(r)
    /\ \E r \in seen : ~is_supported(r)
    /\ collected = {} /\ scanned_appliances = {}

\* C16 (as claimed): a pass returns at most one descriptor per address, and a
\* supported reply from an address whose earlier replies in the pass were all
\* unsupported is accepted (stated for the first pass).
DistinctIps(S) == \A a, b \in S : a.ip = b.ip => a = b

C16_FirstAcceptedWins ==
    /\ [](DistinctIps(scanned_appliances) /\ DistinctIps(Range(queue)))
    /\ [][\A r \in seen' \ seen :
            (pc = "recv" /\ i = 0 /\ is_supported(r)
             /\ \A q \in seen : q.ip = r.ip => ~is_supported(q)) =>
                r \in scanned_appliances']_vars

\* C16 (amended): a pass returns at most one descriptor per address, and a
\* reply from an address that has replied before is never accepted, also when
\* the earlier reply was dropped as unsupported.
C16_FirstReplyWins ==
    /\ [](DistinctIps(scanned_appliances) /\ DistinctIps(Range(queue)))
    /\ [][\A r \in seen' \ seen :
            (\E q \in seen : q.ip = r.ip) => r \notin scanned_appliances']_vars

\* C16 witness: in the first pass an unsupported and a supported reply came
\* from one address and nothing was scanned.
C16_Witness ==
    /\ pc = "recv" /\ i = 0
    /\ Cardinality(seen) = 2 /\ Cardinality(IpsOf(seen)) = 1
    /\ \E r \in seen : is_supported(r)
    /\ \E r \in seen : ~is_supported(r)
    /\ scanned_appliances = {}

\* C17: the descriptors of a pass are processed in ascending id order, the
\* appliances appended in a pass are in ascending id order, and at the end of
\* a pass they are exactly the registered descriptors the collector returned,
\* whatever the order it returned them in.
SortedById(q) == \A a, b \in 1..Len(q) : a < b => q[a].id <= q[b].id
AppendedThisPass ==
    SubSeq(appliances, Len(appsAtPassStart) + 1, Len(appliances))
RegisteredName(d) ==
    {r.name : r \in {q \in Range(cloud_appliances) : q.id = d.id}}

C18_Terminates ==
    /\ <>(pc \in {"returned", "raised"})
    /\ [](ntimeouts <= _BROADCAST_RETRIES)
    /\ [][(pc = "recv" /\ pc' = "process") => ntimeouts' = ntimeouts + 1]_vars

\* C18 witness: a call returned after replies had arrived and all
\* _BROADCAST_RETRIES receive loops had timed out.
C18_Witness ==
    /\ Returned /\ ntimeouts = _BROADCAST_RETRIES /\ nrecv >= 1

\* C19: with a cloud session, while no exception has occurred in the loop,
\* len(appliances) + len(pending ids) is the number of cloud records; an
\* append removes exactly one id and no id ever comes back.
C19_AppendPairsWithRemoval ==
    /\ []((cloud /\ pc \in {"broadcast", "send", "recv", "process", "after"}) =>
            Len(appliances) + Cardinality(known_cloud_appliances)
                = Len(cloud_appliances))
    /\ [][known_cloud_appliances' \subseteq known_cloud_appliances]_vars
    /\ [][(pc = "process" /\ pc' = "process" /\ Len(appliances') > Len(appliances)) =>
            Cardinality(known_cloud_appliances \ known_cloud_appliances') = 1]_vars

\* C19 witness: two appliances have been found and an id is still pending.
C19_Witness ==
    /\ cloud /\ pc = "process" /\ Len(appliances) = 2 /\ known_cloud_appliances # {}

\* C20: the return step keeps every existing entry in place with its id,
\* type and address, and what it appends are placeholders without address,
\* in inventory order, for supported records that had no entry.
CloudPos(id) ==
    CHOOSE j \in 1..Len(cloud_appliances) : cloud_appliances[j].id = id

C20_PlaceholdersOnlyAppended ==
    [][(pc = "after" /\ pc' = "returned") =>
         LET n == Len(appliances)
             added == (n + 1)..Len(appliances')
         IN  /\ Len(appliances') >= n
             /\ \A k \in 1..n :
                   /\ appliances'[k].id = appliances[k].id
                   /\ appliances'[k].type = appliances[k].type
                   /\ appliances'[k].ip = appliances[k].ip
             /\ \A k \in added :
                   /\ appliances'[k].ip = None
                   /\ EntriesOf(appliances, appliances'[k].id) = {}
                   /\ \E r \in SupportedRecords : r.id = appliances'[k].id
             /\ \A a, b \in added :
                   a < b => CloudPos(appliances'[a].id) < CloudPos(appliances'[b].id)]_vars

\* C20 witness: a call returned a list whose first entry was found on the
\* network and whose last entry is a placeholder, from an inventory listed in
\* descending id order.
C20_Witness ==
    /\ Returned /\ Len(appliances) >= 2 /\ Len(cloud_appliances) >= 2
    /\ cloud_appliances[1].id > cloud_appliances[2].id
    /\ appliances[1].ip # None
    /\ appliances[Len(appliances)].ip = None

====
